---- MODULE Spec2Model ----
(***************************************************************************)
(* Session lifecycle of the caption relay (galaxia_backend).               *)
(*                                                                         *)
(*  Spec          src/server.js: connections, the rooms / userMeta /       *)
(*                userStreams maps, recognition streams, the inactivity    *)
(*                interval and the recreation timeouts.                    *)
(*  SpecDupClose  Spec plus a second delivery of a connection's close.     *)
(*  SpecUser      src/unnamed/part_002, the revision keyed by userID:      *)
(*                rooms, callParticipants, userConnections, the streams of *)
(*                createUserStream and its recreation timeouts.            *)
(*  SpecFilter    the pacing / duplicate filter of one recognition stream  *)
(*                of src/server.js, with Date.now() in milliseconds.       *)
(*  SpecIdle      the inactivity interval, the recreation timeouts and the *)
(*                audio frames of one connection of src/server.js, with    *)
(*                the clock and the timers in milliseconds.                *)
(*  SpecBroadcast the data handler of createRecognizeStream in server.js   *)
(*                after the filter: one translation, one payload sent to   *)
(*                every open connection of the room.                       *)
(*  SpecFanout    the data handler of createUserStream in part_002: one    *)
(*                translation and one send per recipient, with joins and   *)
(*                closes of the call's members in between.                 *)
(*                                                                         *)
(* ev, evU and evF record the handler that ran last and what it did; run   *)
(* and threwU are history variables. No handler reads them.                *)
(***************************************************************************)
EXTENDS Integers, FiniteSets, Sequences, TLC

\* src/server.js
VARIABLES wsState, conn, rooms, userMeta, userStreams, streams, intervals,
          timeouts, now, ev
\* src/unnamed/part_002
VARIABLES wsStateU, connU, roomsU, callParticipants, userConnections, streamsU,
          timeoutsU, evU
\* whether a stream.write(msg) of part_002 has thrown so far
VARIABLES threwU

varsS == <<wsState, conn, rooms, userMeta, userStreams, streams, intervals,
           timeouts, now, ev>>
varsU == <<wsStateU, connU, roomsU, callParticipants, userConnections, streamsU,
           timeoutsU, evU, threwU>>
\* the pacing / duplicate filter of one stream of src/server.js
VARIABLES ahora, ultimoTextoProcesado, ultimoTimestamp, run, evF

varsF == <<ahora, ultimoTextoProcesado, ultimoTimestamp, run, evF>>
\* the inactivity monitor of one connection of src/server.js, with Date.now()
\* and the timers in milliseconds
VARIABLES clockI, sessionI, timersI, evI

varsI == <<clockI, sessionI, timersI, evI>>
\* the broadcast of accepted results to the room of one call (src/server.js,
\* data handler of createRecognizeStream)
VARIABLES roomB, readyStateB, pendingB, sentB

varsB == <<roomB, readyStateB, pendingB, sentB>>
\* the fan-out of accepted results to the members of one call
\* (src/unnamed/part_002, data handler of createUserStream)
VARIABLES participants, readyState, registered, handlers, sent, failed

varsD == <<participants, readyState, registered, handlers, sent, failed>>
vars == <<varsS, varsU, varsF, varsD, varsB, varsI>>
notS == <<varsU, varsF, varsD, varsB, varsI>>
notU == <<varsS, varsF, varsD, varsB, varsI>>
notF == <<varsS, varsU, varsD, varsB, varsI>>
notD == <<varsS, varsU, varsF, varsB, varsI>>
notB == <<varsS, varsU, varsF, varsD, varsI>>
notI == <<varsS, varsU, varsF, varsD, varsB>>

(***************************************************************************)
(* Inputs and bounds                                                       *)
(***************************************************************************)
\* the connection objects handed to wss.on("connection")
WS == {"w1", "w2"}
\* values of the callID / userID query parameters
Calls == {"c1", "c2"}
\* the userID, sourceLang and targetLang query parameters each connection
\* supplies to src/server.js
UserOf(w) == IF w = "w1" THEN "u1" ELSE "u2"
SourceLangOf(w) == IF w = "w1" THEN "es" ELSE "en-US"
TargetLangOf(w) == IF w = "w1" THEN "en" ELSE "fr-FR"
\* streams the backend hands out before the model stops creating more
MaxStreams == 4
\* last value of the coarse clock
MaxNow == 1
\* milliseconds of Date.now() that pass in one step of the coarse clock
TickMs == 25000
\* kinds of err.message: one that names a timeout, any other
ErrKinds == {"Audio Timeout", "UNAVAILABLE"}

(***************************************************************************)
(* Objects used as maps: obj[k], delete obj[k]                             *)
(***************************************************************************)
EmptyMap == [k \in {} |-> 0]
Has(f, k) == k \in DOMAIN f
Put(f, k, v) == [x \in (DOMAIN f) \cup {k} |-> IF x = k THEN v ELSE f[x]]
Del(f, k) == [x \in (DOMAIN f) \ {k} |-> f[x]]

\* userMeta[ws] and userStreams[ws] use a WebSocket object as a property
\* name: the name is String(ws), and ws has no toString of its own.
KeyOf(w) == "[object Object]"

NoStream == 0
NoMeta == [callID |-> "none", userID |-> "none", sourceLang |-> "none",
           targetLang |-> "none"]
NoEv == [op |-> "init", ws |-> "none", stream |-> NoStream, acted |-> FALSE,
         made |-> NoStream]
Ev(o, w, s, a, m) == [op |-> o, ws |-> w, stream |-> s, acted |-> a, made |-> m]

(***************************************************************************)
(* createRecognizeStream                                                   *)
(***************************************************************************)
\* err.message.includes("Audio Timeout") || err.message.includes("duration elapsed")
IsTimeoutError(kind) == kind = "Audio Timeout"

\* the stream object returned by clientSTT.streamingRecognize(...).on(...)
RecognizeStream(w, meta) ==
  [ws |-> w, callID |-> meta.callID, userID |-> meta.userID,
   sourceLang |-> meta.sourceLang, targetLang |-> meta.targetLang,
   listeners |-> TRUE, writable |-> TRUE, destroyed |-> FALSE]

\* removeAllListeners(); end(); destroy()
Teardown(st, s) ==
  [st EXCEPT ![s].listeners = FALSE, ![s].writable = FALSE, ![s].destroyed = TRUE]

\* The heap after createRecognizeStream(ws, meta) ran on heap h at time t:
\* a new stream, installed in userStreams[ws], its interval replacing the
\* one recorded there.
createRecognizeStream(h, w, meta, t) ==
  LET id == Len(h.streams) + 1
      k == KeyOf(w)
      old == IF Has(h.userStreams, k) THEN h.userStreams[k].inactivityTimer
             ELSE NoStream
      rec == IF ~Has(h.userStreams, k)
             THEN [stream |-> id, lastAudioTime |-> t, isRestarting |-> FALSE,
                   inactivityTimer |-> id]
             ELSE [h.userStreams[k] EXCEPT !.stream = id, !.isRestarting = FALSE,
                                           !.inactivityTimer = id]
  IN [streams |-> Append(h.streams, RecognizeStream(w, meta)),
      userStreams |-> Put(h.userStreams, k, rec),
      intervals |-> (h.intervals \ {old}) \cup {id},
      made |-> id]

Heap == [streams |-> streams, userStreams |-> userStreams, intervals |-> intervals]

TypeOK ==
  /\ wsState \in [WS -> {"new", "open", "closed"}]
  /\ DOMAIN rooms \subseteq Calls
  /\ \A c \in DOMAIN rooms : rooms[c] \subseteq WS
  /\ Len(streams) <= MaxStreams
  /\ intervals \subseteq 1..Len(streams)
  /\ now \in 0..MaxNow

InitS ==
  /\ wsState = [w \in WS |-> "new"]
  /\ conn = [w \in WS |-> NoMeta]
  /\ rooms = EmptyMap
  /\ userMeta = EmptyMap
  /\ userStreams = EmptyMap
  /\ streams = <<>>
  /\ intervals = {}
  /\ timeouts = {}
  /\ now = 0
  /\ ev = NoEv

(***************************************************************************)
(* wss.on("connection")                                                    *)
(***************************************************************************)
Connect(w, callID) ==
  /\ wsState[w] = "new"
  /\ Len(streams) < MaxStreams
  /\ LET meta == [callID |-> callID, userID |-> UserOf(w),
                  sourceLang |-> SourceLangOf(w), targetLang |-> TargetLangOf(w)]
         h == createRecognizeStream(Heap, w, meta, now)
     IN /\ wsState' = [wsState EXCEPT ![w] = "open"]
        /\ conn' = [conn EXCEPT ![w] = meta]
        /\ rooms' = Put(rooms, callID,
                        (IF Has(rooms, callID) THEN rooms[callID] ELSE {}) \cup {w})
        /\ userMeta' = Put(userMeta, KeyOf(w), meta)
        /\ streams' = h.streams
        /\ userStreams' = h.userStreams
        /\ intervals' = h.intervals
        /\ ev' = Ev("connect", w, NoStream, TRUE, h.made)
  /\ UNCHANGED <<notS, timeouts, now>>

(***************************************************************************)
(* ws.on("message")                                                        *)
(***************************************************************************)
\* WriteTarget without the isRestarting test
WriteTargetWhileRestarting(w) ==
  LET k == KeyOf(w)
  IN IF Has(userStreams, k)
     THEN LET s == userStreams[k].stream
          IN IF s # NoStream /\ ~streams[s].destroyed /\ streams[s].writable
             THEN s ELSE NoStream
     ELSE NoStream

\* the stream a binary frame of connection w is written to, NoStream if dropped
WriteTarget(w) ==
  LET k == KeyOf(w)
  IN IF Has(userStreams, k) /\ ~userStreams[k].isRestarting
     THEN LET s == userStreams[k].stream
          IN IF s # NoStream /\ ~streams[s].destroyed /\ streams[s].writable
             THEN s ELSE NoStream
     ELSE NoStream

Message(w, isBuffer) ==
  /\ wsState[w] = "open"
  /\ LET k == KeyOf(w)
         live == isBuffer /\ Has(userStreams, k) /\ ~userStreams[k].isRestarting
     IN /\ userStreams' = IF live
                          THEN [userStreams EXCEPT ![k].lastAudioTime = now]
                          ELSE userStreams
        /\ ev' = Ev(IF isBuffer THEN "frame" ELSE "text", w,
                    IF isBuffer THEN WriteTarget(w) ELSE NoStream, live, NoStream)
  /\ UNCHANGED <<notS, wsState, conn, rooms, userMeta, streams, intervals, timeouts, now>>

(***************************************************************************)
(* ws.on("close")                                                          *)
(***************************************************************************)
\* where the teardown of the close handler throws, if it does
ThrowPoints == {"none", "end", "destroy"}

\* removeAllListeners(); end(); destroy() cut short by an exception
TeardownUpTo(st, s, thrown) ==
  IF thrown = "none" THEN Teardown(st, s)
  ELSE IF thrown = "end" THEN [st EXCEPT ![s].listeners = FALSE]
  ELSE [st EXCEPT ![s].listeners = FALSE, ![s].writable = FALSE]

\* CloseHandler without the try/catch: an exception of the teardown ends
\* the handler
CloseHandlerThrowAborts(w, thrown) ==
  LET k == KeyOf(w)
      callID == conn[w].callID
      had == Has(userStreams, k)
      s == IF had THEN userStreams[k].stream ELSE NoStream
      goesOn == thrown = "none"
  IN /\ thrown # "none" => s # NoStream
     /\ intervals' = IF had THEN intervals \ {userStreams[k].inactivityTimer}
                     ELSE intervals
     /\ streams' = IF s # NoStream THEN TeardownUpTo(streams, s, thrown) ELSE streams
     /\ userStreams' = IF goesOn THEN Del(userStreams, k) ELSE userStreams
     /\ userMeta' = IF goesOn THEN Del(userMeta, k) ELSE userMeta
     /\ rooms' = IF goesOn /\ Has(rooms, callID)
                 THEN IF rooms[callID] \ {w} = {}
                      THEN Del(rooms, callID)
                      ELSE [rooms EXCEPT ![callID] = @ \ {w}]
                 ELSE rooms
     /\ UNCHANGED <<notS, conn, timeouts, now>>

\* the body of the handler; thrown names the call of the teardown that
\* throws into the catch
CloseHandler(w, thrown) ==
  LET k == KeyOf(w)
      callID == conn[w].callID
      had == Has(userStreams, k)
      s == IF had THEN userStreams[k].stream ELSE NoStream
  IN /\ thrown # "none" => s # NoStream
     /\ intervals' = IF had THEN intervals \ {userStreams[k].inactivityTimer}
                     ELSE intervals
     /\ streams' = IF s # NoStream THEN TeardownUpTo(streams, s, thrown) ELSE streams
     /\ userStreams' = Del(userStreams, k)
     /\ userMeta' = Del(userMeta, k)
     /\ rooms' = IF Has(rooms, callID)
                 THEN IF rooms[callID] \ {w} = {}
                      THEN Del(rooms, callID)
                      ELSE [rooms EXCEPT ![callID] = @ \ {w}]
                 ELSE rooms
     /\ UNCHANGED <<notS, conn, timeouts, now>>

\* ev.stream is the interval the handler found recorded
Close(w, thrown) ==
  /\ wsState[w] = "open"
  /\ wsState' = [wsState EXCEPT ![w] = "closed"]
  /\ ev' = Ev(IF thrown = "none" THEN "close" ELSE "closeThrew", w,
              IF Has(userStreams, KeyOf(w)) THEN userStreams[KeyOf(w)].inactivityTimer
              ELSE NoStream,
              TRUE, NoStream)
  /\ CloseHandler(w, thrown)

\* ws.on("error"): the handler only logs
WsError(w) ==
  /\ wsState[w] = "open"
  /\ ev' = Ev("wserror", w, NoStream, FALSE, NoStream)
  /\ UNCHANGED <<notS, wsState, conn, rooms, userMeta, userStreams, streams, intervals,
                 timeouts, now>>

\* the close signal of an already closed connection, delivered once more
CloseAgain(w) ==
  /\ wsState[w] = "closed"
  /\ UNCHANGED wsState
  /\ ev' = Ev("close2", w, NoStream, TRUE, NoStream)
  /\ CloseHandler(w, "none")

(***************************************************************************)
(* the stream's "error", "data" and "end" events                           *)
(***************************************************************************)
\* a stream can still emit: its handlers are attached and it is not destroyed
Emits(s) == streams[s].listeners /\ ~streams[s].destroyed

StreamError(s, kind, autoDestroy) ==
  /\ s \in 1..Len(streams)
  /\ Emits(s)
  /\ LET k == KeyOf(streams[s].ws)
         recreate == IsTimeoutError(kind) /\ Has(userStreams, k)
                     /\ ~userStreams[k].isRestarting
     IN IF recreate
        THEN /\ userStreams' = [userStreams EXCEPT ![k].isRestarting = TRUE]
             /\ streams' = Teardown(streams, s)
             /\ timeouts' = timeouts \cup {[kind |-> "error", from |-> s]}
             /\ ev' = Ev("error", streams[s].ws, s, TRUE, NoStream)
        ELSE \* the handler only logs; the failed stream may destroy itself
             /\ streams' = [streams EXCEPT ![s].destroyed = autoDestroy,
                                           ![s].writable = FALSE]
             /\ ev' = Ev("error", streams[s].ws, s, FALSE, NoStream)
             /\ UNCHANGED <<userStreams, timeouts>>
  /\ UNCHANGED <<notS, wsState, conn, rooms, userMeta, intervals, now>>

\* the handler only logs
StreamEnd(s) ==
  /\ s \in 1..Len(streams)
  /\ Emits(s)
  /\ ev' = Ev("end", streams[s].ws, s, FALSE, NoStream)
  /\ UNCHANGED <<notS, wsState, conn, rooms, userMeta, userStreams, streams, intervals,
                 timeouts, now>>

\* a result with a transcript: the handler refreshes lastAudioTime; pacing,
\* translation and broadcast touch none of the maps
StreamData(s) ==
  /\ s \in 1..Len(streams)
  /\ Emits(s)
  /\ LET k == KeyOf(streams[s].ws)
     IN /\ userStreams' = IF Has(userStreams, k)
                          THEN [userStreams EXCEPT ![k].lastAudioTime = now]
                          ELSE userStreams
        /\ ev' = Ev("data", streams[s].ws, s, Has(userStreams, k), NoStream)
  /\ UNCHANGED <<notS, wsState, conn, rooms, userMeta, streams, intervals, timeouts, now>>

(***************************************************************************)
(* the inactivity interval and the recreation timeouts                     *)
(***************************************************************************)
\* Date.now() - lastAudioTime > 20000
IdleLimitMs == 20000
IsIdle(rec, t) == (t - rec.lastAudioTime) * TickMs > IdleLimitMs

\* one run of the setInterval callback installed with stream t
InactivityCheck(t) ==
  /\ t \in intervals
  /\ LET w == streams[t].ws
         k == KeyOf(w)
         go == /\ Has(userStreams, k) /\ Has(userMeta, k)
               /\ ~userStreams[k].isRestarting
               /\ IsIdle(userStreams[k], now)
     IN IF go
        THEN /\ userStreams' = [userStreams EXCEPT ![k].isRestarting = TRUE]
             /\ streams' = Teardown(streams, t)
             /\ timeouts' = timeouts \cup {[kind |-> "idle", from |-> t]}
             /\ ev' = Ev("check", w, t, TRUE, NoStream)
        ELSE /\ ev' = Ev("check", w, t, FALSE, NoStream)
             /\ UNCHANGED <<userStreams, streams, timeouts>>
  /\ UNCHANGED <<notS, wsState, conn, rooms, userMeta, intervals, now>>

\* the setTimeout callback scheduled by the error handler (1000 ms) or by
\* the inactivity check (500 ms)
Recreate(p) ==
  /\ p \in timeouts
  /\ LET w == streams[p.from].ws
         k == KeyOf(w)
         go == Has(userMeta, k) /\ Has(userStreams, k)
     IN /\ go => Len(streams) < MaxStreams
        /\ timeouts' = timeouts \ {p}
        /\ IF go
           THEN LET h == createRecognizeStream(Heap, w, userMeta[k], now)
                IN /\ streams' = h.streams
                   /\ intervals' = h.intervals
                   /\ userStreams' =
                        IF p.kind = "error"
                        THEN [h.userStreams EXCEPT ![k].stream = h.made,
                                                   ![k].isRestarting = FALSE,
                                                   ![k].lastAudioTime = now]
                        ELSE h.userStreams
                   /\ ev' = Ev("recreate", w, p.from, TRUE, h.made)
           ELSE /\ ev' = Ev("recreate", w, p.from, FALSE, NoStream)
                /\ UNCHANGED <<streams, intervals, userStreams>>
  /\ UNCHANGED <<notS, wsState, conn, rooms, userMeta, now>>

Tick ==
  /\ now < MaxNow
  /\ now' = now + 1
  /\ ev' = Ev("tick", "none", NoStream, FALSE, NoStream)
  /\ UNCHANGED <<notS, wsState, conn, rooms, userMeta, userStreams, streams, intervals,
                 timeouts>>


(***************************************************************************)
(* src/unnamed/part_002: sessions keyed by userID                          *)
(***************************************************************************)
\* values of the userID query parameter
Users == {"u1", "u2"}
\* streams createUserStream hands out before the model stops creating more
MaxStreamsU == 3
\* kinds of err.message: the handler recreates on the first, not the second
ErrKindsU == {"UNAVAILABLE", "INVALID_ARGUMENT"}

\* err.message.includes('Timeout') || includes('network') || includes('UNAVAILABLE')
isRecoverableError(kind) == kind = "UNAVAILABLE"

\* the stream createUserStream(userID, callID, sourceLang, targetLang, ws)
\* returns; its handlers close over the arguments and are never removed
createUserStream(userID, callID, sourceLang, targetLang, w) ==
  [userID |-> userID, callID |-> callID, sourceLang |-> sourceLang,
   targetLang |-> targetLang, ws |-> w, writable |-> TRUE, destroyed |-> FALSE]

InitU ==
  /\ wsStateU = [w \in WS |-> "new"]
  /\ connU = [w \in WS |-> NoMeta]
  /\ roomsU = EmptyMap
  /\ callParticipants = EmptyMap
  /\ userConnections = EmptyMap
  /\ streamsU = <<>>
  /\ timeoutsU = <<>>
  /\ evU = NoEv
  /\ threwU = FALSE

\* wss.on("connection")
ConnectU(w, callID, userID) ==
  /\ wsStateU[w] = "new"
  /\ Len(streamsU) < MaxStreamsU
  /\ LET sourceLang == SourceLangOf(w)
         targetLang == TargetLangOf(w)
         fresh == ~Has(roomsU, callID)
         members == IF fresh THEN {} ELSE roomsU[callID]
         parts == IF fresh \/ ~Has(callParticipants, callID) THEN EmptyMap
                  ELSE callParticipants[callID]
         id == Len(streamsU) + 1
     IN /\ wsStateU' = [wsStateU EXCEPT ![w] = "open"]
        /\ connU' = [connU EXCEPT ![w] = [callID |-> callID, userID |-> userID,
                                          sourceLang |-> sourceLang,
                                          targetLang |-> targetLang]]
        /\ roomsU' = Put(roomsU, callID, members \cup {userID})
        /\ callParticipants' =
             Put(callParticipants, callID,
                 Put(parts, userID, [sourceLang |-> sourceLang,
                                     targetLang |-> targetLang]))
        /\ streamsU' = Append(streamsU,
                              createUserStream(userID, callID, sourceLang, targetLang, w))
        /\ userConnections' =
             Put(userConnections, userID,
                 [ws |-> w, callID |-> callID, sourceLang |-> sourceLang,
                  targetLang |-> targetLang, stream |-> id, lastText |-> "",
                  lastTimestamp |-> 0])
        /\ evU' = Ev("connect", w, NoStream, TRUE, id)
  /\ UNCHANGED <<notU, timeoutsU, threwU>>

\* ws.on("message"): a binary frame is written to userData.stream; when that
\* stream is not writable, or the write throws, a new stream replaces it
MessageU(w, isBuffer, throws) ==
  /\ wsStateU[w] = "open"
  /\ LET userID == connU[w].userID
         callID == connU[w].callID
         known == isBuffer /\ Has(userConnections, userID)
         userData == userConnections[userID]
         s == userData.stream
         usable == s # NoStream /\ streamsU[s].writable /\ ~streamsU[s].destroyed
         id == Len(streamsU) + 1
     IN IF ~known
        THEN /\ ~throws
             /\ UNCHANGED threwU
             /\ evU' = Ev(IF isBuffer THEN "frame" ELSE "text", "none", NoStream,
                          FALSE, NoStream)
             /\ UNCHANGED <<streamsU, userConnections>>
        ELSE IF usable /\ ~throws
        THEN /\ evU' = Ev("frame", w, s, TRUE, NoStream)
             /\ UNCHANGED <<streamsU, userConnections, threwU>>
        ELSE /\ Len(streamsU) < MaxStreamsU
             /\ throws => usable
             /\ threwU' = (threwU \/ throws)
             /\ streamsU' = Append(streamsU,
                                   createUserStream(userID, callID, userData.sourceLang,
                                                    userData.targetLang, w))
             /\ userConnections' = [userConnections EXCEPT ![userID].stream = id]
             /\ evU' = Ev("frame", w, NoStream, FALSE, id)
  /\ UNCHANGED <<notU, wsStateU, connU, roomsU, callParticipants, timeoutsU>>

\* ws.on("close")
CloseHandlerU(w) ==
  LET userID == connU[w].userID
  IN IF ~Has(userConnections, userID)
     THEN UNCHANGED <<streamsU, roomsU, callParticipants, userConnections>>
     ELSE LET userData == userConnections[userID]
              c == userData.callID
              s == userData.stream
          IN /\ streamsU' = IF s # NoStream /\ ~streamsU[s].destroyed
                            THEN [streamsU EXCEPT ![s].writable = FALSE,
                                                  ![s].destroyed = TRUE]
                            ELSE streamsU
             /\ IF Has(roomsU, c)
                THEN IF roomsU[c] \ {userID} = {}
                     THEN /\ roomsU' = Del(roomsU, c)
                          /\ callParticipants' = Del(callParticipants, c)
                     ELSE /\ roomsU' = [roomsU EXCEPT ![c] = @ \ {userID}]
                          /\ callParticipants' =
                               IF Has(callParticipants, c)
                               THEN [callParticipants EXCEPT ![c] = Del(@, userID)]
                               ELSE callParticipants
                ELSE UNCHANGED <<roomsU, callParticipants>>
             /\ userConnections' = Del(userConnections, userID)

CloseU(w) ==
  /\ wsStateU[w] = "open"
  /\ wsStateU' = [wsStateU EXCEPT ![w] = "closed"]
  /\ evU' = Ev("close", w, NoStream, Has(userConnections, connU[w].userID), NoStream)
  /\ CloseHandlerU(w)
  /\ UNCHANGED <<notU, connU, timeoutsU, threwU>>

\* the stream's "error" event (a stream fails once, and a failed stream is
\* destroyed): a recoverable error, while the user's recorded connection is
\* open, schedules a recreation 2000 ms later
StreamErrorU(s, kind) ==
  /\ s \in 1..Len(streamsU)
  /\ ~streamsU[s].destroyed
  /\ LET userID == streamsU[s].userID
         go == /\ Has(userConnections, userID)
               /\ wsStateU[userConnections[userID].ws] = "open"
               /\ isRecoverableError(kind)
     IN /\ streamsU' = [streamsU EXCEPT ![s].writable = FALSE,
                                        ![s].destroyed = TRUE]
        /\ timeoutsU' = IF go THEN Append(timeoutsU, s) ELSE timeoutsU
        /\ evU' = Ev("error", streamsU[s].ws, s, go, NoStream)
  /\ UNCHANGED <<notU, wsStateU, connU, roomsU, callParticipants, userConnections,
                 threwU>>

\* the stream's "end" event: the handler only logs
StreamEndU(s) ==
  /\ s \in 1..Len(streamsU)
  /\ ~streamsU[s].destroyed
  /\ evU' = Ev("end", "none", NoStream, FALSE, NoStream)
  /\ UNCHANGED <<notU, wsStateU, connU, roomsU, callParticipants, userConnections,
                 streamsU, timeoutsU, threwU>>

\* transcripts a stream of part_002 reports
TextsU == {"hola"}

\* the stream's "data" event, in the schedule where every translation of
\* the handler settles before another event is handled: the duplicate test
\* on userData.lastText (inWindow: less than 3000 ms since lastTimestamp),
\* then one payload per entry of callParticipants[callID] whose userID has
\* a connection record with an OPEN ws, sent over the ws of that record.
\* evU.to holds the connections that received a payload.
DataU(s, texto, inWindow) ==
  /\ s \in 1..Len(streamsU)
  /\ ~streamsU[s].destroyed
  /\ LET userID == streamsU[s].userID
         callID == streamsU[s].callID
         known == Has(userConnections, userID)
         dup == known /\ userConnections[userID].lastText = texto /\ inWindow
         accepted == known /\ ~dup
         recipients == IF accepted /\ Has(callParticipants, callID)
                       THEN {r \in DOMAIN callParticipants[callID] :
                               /\ Has(userConnections, r)
                               /\ wsStateU[userConnections[r].ws] = "open"}
                       ELSE {}
     IN /\ inWindow => (known /\ userConnections[userID].lastText = texto)
        /\ userConnections' = IF accepted
                               THEN [userConnections EXCEPT ![userID].lastText = texto]
                               ELSE userConnections
        /\ evU' = [op |-> "data", ws |-> streamsU[s].ws, stream |-> s,
                   acted |-> accepted, made |-> NoStream, call |-> callID,
                   to |-> {userConnections[r].ws : r \in recipients}]
  /\ UNCHANGED <<notU, wsStateU, connU, roomsU, callParticipants, streamsU, timeoutsU,
                 threwU>>

\* the setTimeout callback of the error handler; timers of one delay fire in
\* the order they were set
RecreateU ==
  /\ timeoutsU # <<>>
  /\ LET s == Head(timeoutsU)
         userID == streamsU[s].userID
         go == Has(userConnections, userID)
         id == Len(streamsU) + 1
     IN /\ go => Len(streamsU) < MaxStreamsU
        /\ timeoutsU' = Tail(timeoutsU)
        /\ IF go
           THEN /\ streamsU' = Append(streamsU,
                      createUserStream(userID, streamsU[s].callID, streamsU[s].sourceLang,
                                       streamsU[s].targetLang, streamsU[s].ws))
                /\ userConnections' = [userConnections EXCEPT ![userID].stream = id]
                /\ evU' = Ev("recreate", streamsU[s].ws, s, TRUE, id)
           ELSE /\ evU' = Ev("recreate", streamsU[s].ws, s, FALSE, NoStream)
                /\ UNCHANGED <<streamsU, userConnections>>
  /\ UNCHANGED <<notU, wsStateU, connU, roomsU, callParticipants, threwU>>

NextU ==
  \/ \E w \in WS, c \in Calls, u \in Users : ConnectU(w, c, u)
  \/ \E w \in WS, b \in BOOLEAN, t \in BOOLEAN : MessageU(w, b, t)
  \/ \E w \in WS : CloseU(w)
  \/ \E s \in 1..MaxStreamsU, kind \in ErrKindsU : StreamErrorU(s, kind)
  \/ \E s \in 1..MaxStreamsU : StreamEndU(s)
  \/ \E s \in 1..MaxStreamsU, texto \in TextsU, inWindow \in BOOLEAN :
       DataU(s, texto, inWindow)
  \/ RecreateU

(***************************************************************************)
(* The pacing / duplicate filter of one stream of src/server.js            *)
(***************************************************************************)
\* transcripts of result.alternatives[0]; "" stands for a missing transcript
Texts == {"", "hola", "hola mundo"}
\* milliseconds between two readings of Date.now() in the filter's clock
StepMs == 100
\* steps of the filter's clock
MaxSteps == 24
\* events counted in one run of identical interims
RunLenCap == 3
\* tiempoDesdeUltimo < 800, tiempoDesdeUltimo < 1500
MinIntervalMs == 800
DedupWindowMs == 1500

\* Verdict with the duplicate test bounded by the pacing interval
VerdictShortWindow(texto, isFinal, t, lastText, lastTs) ==
  LET tiempoDesdeUltimo == t - lastTs
  IN IF texto = "" THEN "empty"
     ELSE IF ~isFinal /\ tiempoDesdeUltimo < MinIntervalMs THEN "throttle"
     ELSE IF texto = lastText /\ tiempoDesdeUltimo < MinIntervalMs THEN "dup"
     ELSE "accept"

\* Verdict with the pacing interval applied to finals too
VerdictFinalsThrottled(texto, isFinal, t, lastText, lastTs) ==
  LET tiempoDesdeUltimo == t - lastTs
  IN IF texto = "" THEN "empty"
     ELSE IF tiempoDesdeUltimo < MinIntervalMs THEN "throttle"
     ELSE IF texto = lastText /\ tiempoDesdeUltimo < DedupWindowMs THEN "dup"
     ELSE "accept"

\* Verdict without the pacing test of interims
VerdictInterimsUnpaced(texto, isFinal, t, lastText, lastTs) ==
  LET tiempoDesdeUltimo == t - lastTs
  IN IF texto = "" THEN "empty"
     ELSE IF texto = lastText /\ tiempoDesdeUltimo < DedupWindowMs THEN "dup"
     ELSE "accept"

\* What the data handler does with a result: "empty" (no transcript),
\* "throttle" (interim too soon), "dup" (same text inside the window) or
\* "accept" (goes on to translation and broadcast).
Verdict(texto, isFinal, t, lastText, lastTs) ==
  LET tiempoDesdeUltimo == t - lastTs
  IN IF texto = "" THEN "empty"
     ELSE IF ~isFinal /\ tiempoDesdeUltimo < MinIntervalMs THEN "throttle"
     ELSE IF texto = lastText /\ tiempoDesdeUltimo < DedupWindowMs THEN "dup"
     ELSE "accept"

\* The run of consecutive interim results with one text, each less than the
\* pacing interval after the one before: its text, the arrival of its last
\* event, its length (capped), how many of its events were accepted, when the
\* last one was, and whether any two acceptances were closer than the window.
NoRun == [text |-> "", last |-> 0, len |-> 0, accepts |-> 0, accAt |-> 0,
          apart |-> TRUE, closed |-> TRUE]
NoEvF == [op |-> "init", texto |-> "", isFinal |-> FALSE, verdict |-> "none",
          prevText |-> "", elapsed |-> 0, inWindow |-> FALSE]

InitF ==
  /\ ahora = 0
  /\ ultimoTextoProcesado = ""
  /\ ultimoTimestamp = 0
  /\ run = NoRun
  /\ evF = NoEvF

\* the run after an interim result with transcript texto, judged v, at time t
RunAfter(r, texto, v, t) ==
  LET continues == ~r.closed /\ r.text = texto /\ t - r.last < MinIntervalMs
      base == IF continues THEN r ELSE [NoRun EXCEPT !.text = texto, !.closed = FALSE]
      seen == [base EXCEPT !.last = t,
                           !.len = IF @ < RunLenCap THEN @ + 1 ELSE @]
  IN IF v = "accept"
     THEN [seen EXCEPT !.accepts = @ + 1, !.accAt = t,
                       !.apart = base.apart /\ (base.accepts = 0
                                                \/ t - base.accAt >= DedupWindowMs)]
     ELSE seen

\* the stream's "data" event
Data(texto, isFinal) ==
  /\ LET v == Verdict(texto, isFinal, ahora, ultimoTextoProcesado, ultimoTimestamp)
     IN /\ IF v = "accept"
           THEN /\ ultimoTextoProcesado' = texto
                /\ ultimoTimestamp' = ahora
           ELSE UNCHANGED <<ultimoTextoProcesado, ultimoTimestamp>>
        /\ run' = IF texto = "" THEN run
                  ELSE IF isFinal THEN [run EXCEPT !.closed = TRUE]
                  ELSE RunAfter(run, texto, v, ahora)
        /\ evF' = [op |-> "data", texto |-> texto, isFinal |-> isFinal, verdict |-> v,
                   prevText |-> ultimoTextoProcesado,
                   elapsed |-> ahora - ultimoTimestamp,
                   inWindow |-> /\ run.accepts > 0 /\ ~run.closed /\ run.text = texto
                                /\ ahora - run.accAt < DedupWindowMs]
  /\ UNCHANGED <<notF, ahora>>

\* createRecognizeStream starts a stream with a filter state of its own
NewFilter ==
  /\ ultimoTextoProcesado' = ""
  /\ ultimoTimestamp' = ahora
  /\ run' = NoRun
  /\ evF' = [NoEvF EXCEPT !.op = "create", !.prevText = ultimoTextoProcesado]
  /\ evF.op # "create"
  /\ UNCHANGED <<notF, ahora>>

TickF ==
  /\ ahora < MaxSteps * StepMs
  /\ ahora' = ahora + StepMs
  /\ evF' = [NoEvF EXCEPT !.op = "tick"]
  /\ UNCHANGED <<notF, ultimoTextoProcesado, ultimoTimestamp, run>>

NextF ==
  \/ \E texto \in Texts, isFinal \in BOOLEAN : Data(texto, isFinal)
  \/ NewFilter
  \/ TickF

(***************************************************************************)
(* src/unnamed/part_002: fan-out of an accepted result                     *)
(***************************************************************************)
\* the userIDs that join the call, each over a connection of its own
UsersD == {"u1", "u2"}
\* the targetLang query parameter of each of them
TargetLangD(u) == IF u = "u1" THEN "en" ELSE "fr-FR"
\* results the streams of the call report and the filter accepts
MaxEvents == 2

\* codigo.split('-') for the tags in use
Subtags(codigo) ==
  IF codigo = "fr-FR" THEN <<"fr", "FR">>
  ELSE IF codigo = "en-US" THEN <<"en", "US">>
  ELSE <<codigo>>

extraerCodigoCorto(codigo) ==
  IF codigo = "" THEN "en"
  ELSE IF Len(Subtags(codigo)) > 1 THEN Subtags(codigo)[1]
  ELSE codigo

\* one invocation of the async data handler: where it is, whose stream
\* reported the result, the Map entries its for..of loop has passed, the
\* recipient whose translation it awaits (the loop's position is dropped
\* when it returns), and the members that were connected when it started
NoHandler == [pc |-> "idle", userID |-> "none", visited |-> {}, cur |-> "none",
              members |-> {}]

InitD ==
  /\ participants = <<>>
  /\ readyState = [u \in UsersD |-> "NONE"]
  /\ registered = {}
  /\ handlers = [e \in 1..MaxEvents |-> NoHandler]
  /\ sent = [u \in UsersD |-> <<>>]
  /\ failed = {}

(***************************************************************************)
(* src/server.js: translation and broadcast of an accepted result          *)
(***************************************************************************)
NoPending == [pc |-> "idle", ws |-> "none"]

InitB ==
  /\ roomB = {}
  /\ readyStateB = [w \in WS |-> "NONE"]
  /\ pendingB = [e \in 1..MaxEvents |-> NoPending]
  /\ sentB = [w \in WS |-> <<>>]

(***************************************************************************)
(* src/server.js: the inactivity monitor of one connection, in ms          *)
(***************************************************************************)
\* milliseconds between two readings of Date.now() in the monitor's clock
StepI == 500
\* steps of the monitor's clock
MaxStepsI == 68
\* setInterval(..., 8000), setTimeout(..., 500), setTimeout(..., 1000)
CheckPeriodMs == 8000
IdleDelayMs == 500
ErrorDelayMs == 1000

\* evI.made counts the streams the last step created
NoEvI == [op |-> "init", go |-> FALSE, gap |-> 0, flag |-> FALSE, made |-> 0]

\* right after wss.on("connection") ran at time 0: userMeta[ws] and
\* userStreams[ws] exist, a stream is installed and its interval is armed
InitI ==
  /\ clockI = 0
  /\ sessionI = [registered |-> TRUE, live |-> TRUE, lastAudioTime |-> 0,
                 isRestarting |-> FALSE]
  /\ timersI = [check |-> {CheckPeriodMs}, idle |-> {}, error |-> {}]
  /\ evI = NoEvI

Init == InitS /\ InitU /\ InitF /\ InitD /\ InitB /\ InitI

\* the inactivity test with the limit itself counted as idle
IdleGoAtLimit(s, t) ==
  /\ s.registered
  /\ ~s.isRestarting
  /\ t - s.lastAudioTime >= IdleLimitMs

\* the interval callback goes on to recreate: userStreams[ws] and
\* userMeta[ws] exist, isRestarting is false, timeSinceLastAudio > 20000
IdleGo(s, t) ==
  /\ s.registered
  /\ ~s.isRestarting
  /\ t - s.lastAudioTime > IdleLimitMs

Due(ts) == {d \in ts : d <= clockI}
Pending == timersI.check \cup timersI.idle \cup timersI.error

\* time passes while no timer is due
TickI ==
  /\ clockI < MaxStepsI * StepI
  /\ Due(Pending) = {}
  /\ clockI' = clockI + StepI
  /\ evI' = [NoEvI EXCEPT !.op = "tick"]
  /\ UNCHANGED <<notI, sessionI, timersI>>

\* ws.on("message") with a binary frame
FrameI ==
  /\ sessionI.registered
  /\ sessionI' = IF ~sessionI.isRestarting
                 THEN [sessionI EXCEPT !.lastAudioTime = clockI]
                 ELSE sessionI
  /\ evI' = [NoEvI EXCEPT !.op = "frame"]
  /\ UNCHANGED <<notI, clockI, timersI>>

\* the stream's "error" event with an "Audio Timeout" message
ErrorI ==
  /\ sessionI.live
  /\ IF sessionI.registered /\ ~sessionI.isRestarting
     THEN /\ sessionI' = [sessionI EXCEPT !.isRestarting = TRUE, !.live = FALSE]
          /\ timersI' = [timersI EXCEPT !.error = @ \cup {clockI + ErrorDelayMs}]
     ELSE UNCHANGED <<sessionI, timersI>>
  /\ evI' = [NoEvI EXCEPT !.op = "error"]
  /\ UNCHANGED <<notI, clockI>>

\* createRecognizeStream from a timeout callback: a new stream is installed,
\* the flag cleared, the interval replaced by one of the new stream
CreatedI(s) == [s EXCEPT !.live = TRUE, !.isRestarting = FALSE]

\* the setTimeout callback of the error handler
ErrorTimerI(d) ==
  /\ d \in Due(timersI.error)
  /\ IF sessionI.registered
     THEN /\ sessionI' = [CreatedI(sessionI) EXCEPT !.lastAudioTime = clockI]
          /\ timersI' = [timersI EXCEPT !.error = @ \ {d},
                                        !.check = {clockI + CheckPeriodMs}]
     ELSE /\ timersI' = [timersI EXCEPT !.error = @ \ {d}]
          /\ UNCHANGED sessionI
  /\ evI' = [NoEvI EXCEPT !.op = "errorTimer", !.go = sessionI.registered,
                          !.made = IF sessionI.registered THEN 1 ELSE 0]
  /\ UNCHANGED <<notI, clockI>>

\* one run of the setInterval callback
CheckI(d) ==
  /\ d \in Due(timersI.check)
  /\ IF IdleGo(sessionI, clockI)
     THEN /\ sessionI' = [sessionI EXCEPT !.isRestarting = TRUE, !.live = FALSE]
          /\ timersI' = [timersI EXCEPT !.check = {d + CheckPeriodMs},
                                        !.idle = @ \cup {clockI + IdleDelayMs}]
     ELSE /\ timersI' = [timersI EXCEPT !.check = {d + CheckPeriodMs}]
          /\ UNCHANGED sessionI
  /\ evI' = [op |-> "check", go |-> IdleGo(sessionI, clockI),
             gap |-> clockI - sessionI.lastAudioTime,
             flag |-> sessionI.isRestarting, made |-> 0]
  /\ UNCHANGED <<notI, clockI>>

\* the setTimeout callback of the inactivity check
IdleTimerI(d) ==
  /\ d \in Due(timersI.idle)
  /\ IF sessionI.registered
     THEN /\ sessionI' = CreatedI(sessionI)
          /\ timersI' = [timersI EXCEPT !.idle = @ \ {d},
                                        !.check = {clockI + CheckPeriodMs}]
     ELSE /\ timersI' = [timersI EXCEPT !.idle = @ \ {d}]
          /\ UNCHANGED sessionI
  /\ evI' = [NoEvI EXCEPT !.op = "idleTimer", !.go = sessionI.registered,
                          !.made = IF sessionI.registered THEN 1 ELSE 0]
  /\ UNCHANGED <<notI, clockI>>

\* ws.on("close"): the interval is cleared, the stream torn down, the
\* entries deleted
CloseI ==
  /\ sessionI.registered
  /\ sessionI' = [sessionI EXCEPT !.registered = FALSE, !.live = FALSE]
  /\ timersI' = [timersI EXCEPT !.check = {}]
  /\ evI' = [NoEvI EXCEPT !.op = "close"]
  /\ UNCHANGED <<notI, clockI>>

NextI ==
  \/ TickI
  \/ FrameI
  \/ ErrorI
  \/ \E d \in timersI.error : ErrorTimerI(d)
  \/ \E d \in timersI.check : CheckI(d)
  \/ \E d \in timersI.idle : IdleTimerI(d)
  \/ CloseI

\* wss.on("connection"): rooms[callID].add(ws)
JoinB(w) ==
  /\ readyStateB[w] = "NONE"
  /\ readyStateB' = [readyStateB EXCEPT ![w] = "OPEN"]
  /\ roomB' = roomB \cup {w}
  /\ UNCHANGED <<notB, pendingB, sentB>>

\* the connection leaves OPEN; its close handler has not run yet
ClosingB(w) ==
  /\ readyStateB[w] = "OPEN"
  /\ readyStateB' = [readyStateB EXCEPT ![w] = "CLOSED"]
  /\ UNCHANGED <<notB, roomB, pendingB, sentB>>

\* ws.on("close"): rooms[callID].delete(ws)
CloseB(w) ==
  /\ readyStateB[w] = "CLOSED"
  /\ w \in roomB
  /\ roomB' = roomB \ {w}
  /\ UNCHANGED <<notB, readyStateB, pendingB, sentB>>

\* the stream created for connection w reports result e, the filter accepts
\* it, and the handler awaits clientTranslate.translate(texto, targetLangCorto)
DataB(e, w) ==
  /\ pendingB[e].pc = "idle"
  /\ \A d \in 1..(e - 1) : pendingB[d].pc # "idle"
  /\ w \in roomB
  /\ pendingB' = [pendingB EXCEPT ![e] = [pc |-> "await", ws |-> w]]
  /\ UNCHANGED <<notB, roomB, readyStateB, sentB>>

\* the payload of result e: the languages are those of the stream's creator
PayloadB(e) ==
  LET w == pendingB[e].ws
  IN [event |-> e, userID |-> UserOf(w),
      traduccion |-> extraerCodigoCorto(TargetLangOf(w)),
      targetLang |-> extraerCodigoCorto(TargetLangOf(w))]

\* the translation of handler e settles: on success the one payload goes to
\* every OPEN client of rooms[callID], on failure the catch logs
TranslateDoneB(e, ok) ==
  /\ pendingB[e].pc = "await"
  /\ sentB' = [w \in WS |-> IF ok /\ w \in roomB /\ readyStateB[w] = "OPEN"
                             THEN Append(sentB[w], PayloadB(e)) ELSE sentB[w]]
  /\ pendingB' = [pendingB EXCEPT ![e].pc = IF ok THEN "done" ELSE "failed"]
  /\ UNCHANGED <<notB, roomB, readyStateB>>

NextB ==
  \/ \E w \in WS : JoinB(w)
  \/ \E w \in WS : ClosingB(w)
  \/ \E w \in WS : CloseB(w)
  \/ \E e \in 1..MaxEvents, w \in WS : DataB(e, w)
  \/ \E e \in 1..MaxEvents, ok \in BOOLEAN : TranslateDoneB(e, ok)

\* userConnections[u] exists and its ws is OPEN
Reachable(u) == u \in registered /\ readyState[u] = "OPEN"

\* The for..of loop over callParticipants[callID] from the entries already
\* passed up to the next translate call: entries without an open connection
\* are skipped; cur is "none" when the Map is exhausted.
RECURSIVE LoopToAwait(_)
LoopToAwait(visited) ==
  LET rest == SelectSeq(participants, LAMBDA u : u \notin visited)
  IN IF rest = <<>> THEN [visited |-> visited, cur |-> "none"]
     ELSE IF Reachable(Head(rest))
          THEN [visited |-> visited \cup {Head(rest)}, cur |-> Head(rest)]
          ELSE LoopToAwait(visited \cup {Head(rest)})

\* wss.on("connection"): the Map gains an entry, userConnections a record
JoinD(u) ==
  /\ readyState[u] = "NONE"
  /\ readyState' = [readyState EXCEPT ![u] = "OPEN"]
  /\ participants' = Append(participants, u)
  /\ registered' = registered \cup {u}
  /\ UNCHANGED <<notD, handlers, sent, failed>>

\* the connection leaves OPEN; its close handler has not run yet
ClosingD(u) ==
  /\ readyState[u] = "OPEN"
  /\ readyState' = [readyState EXCEPT ![u] = "CLOSED"]
  /\ UNCHANGED <<notD, participants, registered, handlers, sent, failed>>

\* ws.on("close"): the Map entry and the userConnections record are deleted
CloseD(u) ==
  /\ readyState[u] = "CLOSED"
  /\ u \in registered
  /\ participants' = SelectSeq(participants, LAMBDA x : x # u)
  /\ registered' = registered \ {u}
  /\ UNCHANGED <<notD, readyState, handlers, sent, failed>>

\* the stream of userID reports result e, the filter accepts it, and the
\* handler runs up to its first await
DataD(e, userID) ==
  /\ handlers[e].pc = "idle"
  /\ \A d \in 1..(e - 1) : handlers[d].pc # "idle"
  /\ userID \in registered
  /\ LET l == LoopToAwait({})
     IN handlers' = [handlers EXCEPT ![e] =
          [pc |-> IF l.cur = "none" THEN "done" ELSE "await", userID |-> userID,
           visited |-> IF l.cur = "none" THEN {} ELSE l.visited, cur |-> l.cur,
           members |-> {u \in UsersD : Reachable(u)}]]
  /\ UNCHANGED <<notD, participants, readyState, registered, sent, failed>>

\* Payload with the self flag never set
PayloadNeverSelf(e, u) ==
  [event |-> e, userID |-> handlers[e].userID,
   traduccion |-> extraerCodigoCorto(TargetLangD(u)),
   targetLang |-> extraerCodigoCorto(TargetLangD(u)),
   isSelf |-> FALSE]

\* the payload built for recipient u of result e
Payload(e, u) ==
  [event |-> e, userID |-> handlers[e].userID,
   traduccion |-> extraerCodigoCorto(TargetLangD(u)),
   targetLang |-> extraerCodigoCorto(TargetLangD(u)),
   isSelf |-> (u = handlers[e].userID)]

\* TranslateDone with the try/catch around the whole loop: a failed
\* translation ends the handler
TranslateDoneAbortsOnFailure(e, ok) ==
  /\ handlers[e].pc = "await"
  /\ LET u == handlers[e].cur
         l == IF ok THEN LoopToAwait(handlers[e].visited)
              ELSE [visited |-> {}, cur |-> "none"]
     IN /\ sent' = IF ok /\ readyState[u] = "OPEN"
                    THEN [sent EXCEPT ![u] = Append(@, Payload(e, u))]
                    ELSE sent
        /\ failed' = IF ok THEN failed ELSE failed \cup {<<e, u>>}
        /\ handlers' = [handlers EXCEPT ![e].pc = IF l.cur = "none" THEN "done"
                                                  ELSE "await",
                                        ![e].visited = IF l.cur = "none" THEN {}
                                                       ELSE l.visited,
                                        ![e].cur = l.cur]
  /\ UNCHANGED <<notD, participants, readyState, registered>>

\* clientTranslate.translate of handler e settles: on success the payload is
\* sent over the recipient's connection, on failure the catch logs; the
\* loop then runs on to the next await
TranslateDone(e, ok) ==
  /\ handlers[e].pc = "await"
  /\ LET u == handlers[e].cur
         l == LoopToAwait(handlers[e].visited)
     IN /\ sent' = IF ok /\ readyState[u] = "OPEN"
                    THEN [sent EXCEPT ![u] = Append(@, Payload(e, u))]
                    ELSE sent
        /\ failed' = IF ok THEN failed ELSE failed \cup {<<e, u>>}
        /\ handlers' = [handlers EXCEPT ![e].pc = IF l.cur = "none" THEN "done"
                                                  ELSE "await",
                                        ![e].visited = IF l.cur = "none" THEN {}
                                                       ELSE l.visited,
                                        ![e].cur = l.cur]
  /\ UNCHANGED <<notD, participants, readyState, registered>>

NextD ==
  \/ \E u \in UsersD : JoinD(u)
  \/ \E u \in UsersD : ClosingD(u)
  \/ \E u \in UsersD : CloseD(u)
  \/ \E e \in 1..MaxEvents, u \in UsersD : DataD(e, u)
  \/ \E e \in 1..MaxEvents, ok \in BOOLEAN : TranslateDone(e, ok)

Next ==
  \/ \E w \in WS, c \in Calls : Connect(w, c)
  \/ \E w \in WS, b \in BOOLEAN : Message(w, b)
  \/ \E w \in WS, thrown \in ThrowPoints : Close(w, thrown)
  \/ \E s \in 1..MaxStreams, kind \in ErrKinds, d \in BOOLEAN : StreamError(s, kind, d)
  \/ \E s \in 1..MaxStreams : StreamEnd(s)
  \/ \E s \in 1..MaxStreams : StreamData(s)
  \/ \E t \in 1..MaxStreams : InactivityCheck(t)
  \/ \E p \in timeouts : Recreate(p)
  \/ \E w \in WS : WsError(w)
  \/ Tick

Spec == Init /\ [][Next]_vars

NextDupClose == Next \/ \E w \in WS : CloseAgain(w)

SpecDupClose == Init /\ [][NextDupClose]_vars

SpecUser == Init /\ [][NextU]_vars

SpecFilter == Init /\ [][NextF]_vars

SpecFanout == Init /\ [][NextD]_vars

SpecBroadcast == Init /\ [][NextB]_vars

SpecIdle == Init /\ [][NextI]_vars

(***************************************************************************)
(* Claims                                                                  *)
(***************************************************************************)
\* a stream of part_002 is live until it is destroyed: its handlers stay on
LiveU(s) == ~streamsU[s].destroyed
\* no two connections made so far supplied the same userID
DistinctUserIDs ==
  \A a, b \in WS : (a # b /\ wsStateU[a] # "new" /\ wsStateU[b] # "new")
                   => connU[a].userID # connU[b].userID
LiveStreamsOfUser(u) == {s \in 1..Len(streamsU) : streamsU[s].userID = u /\ LiveU(s)}
PendingOfUser(u) == {i \in 1..Len(timeoutsU) : streamsU[timeoutsU[i]].userID = u}

\* C1: every participant has at most one live recognition stream, whatever
\* the sequence of connects, frames, stream errors, recreation timers and
\* closes (stated here for participants with userIDs of their own, in runs
\* where no write has thrown).
C1_OneLiveStreamPerParticipant ==
  (DistinctUserIDs /\ ~threwU) => \A u \in Users : Cardinality(LiveStreamsOfUser(u)) <= 1

\* C2: a binary frame is written only to the installed, writable stream of a
\* session that is not restarting; a frame that arrives while isRestarting is
\* true is dropped and changes nothing; a frame that finds the flag clear and
\* the installed stream writable is written to it; and the flag is cleared
\* only in the step that installs a newly created stream.
C2_FrameStep ==
  ev'.op = "frame" =>
    LET k == KeyOf(ev'.ws)
        open == Has(userStreams, k) /\ ~userStreams[k].isRestarting
        s == IF Has(userStreams, k) THEN userStreams[k].stream ELSE NoStream
        usable == s # NoStream /\ streams[s].writable /\ ~streams[s].destroyed
    IN /\ ev'.stream # NoStream => (open /\ usable /\ ev'.stream = s)
       /\ (open /\ usable) => ev'.stream = s
       /\ ~open => /\ ev'.stream = NoStream
                   /\ UNCHANGED <<rooms, userMeta, userStreams, streams, intervals,
                                  timeouts>>
       /\ streams' = streams

C2_FlagStep ==
  \A k \in DOMAIN userStreams \cap DOMAIN userStreams' :
    (userStreams[k].isRestarting /\ ~userStreams'[k].isRestarting)
      => /\ Len(streams') = Len(streams) + 1
         /\ userStreams'[k].stream = Len(streams')
         /\ streams'[Len(streams')].writable
         /\ ~streams'[Len(streams')].destroyed

C2_FramesOnlyToInstalledStream == [][C2_FrameStep /\ C2_FlagStep]_vars

\* C2 witness: after a recreation, a frame is written to the stream that
\* replaced a torn-down stream of the same connection.
C2_Witness ==
  /\ ev.op = "frame"
  /\ ev.stream # NoStream
  /\ \E s \in 1..Len(streams) :
       /\ s < ev.stream
       /\ streams[s].ws = streams[ev.stream].ws
       /\ ~streams[s].listeners

\* C3: whenever a stream of a connected participant raises an error, of any
\* kind, or ends, a recreation is scheduled for its session.
C3_ErrorSchedulesRecreation ==
  (ev.op \in {"error", "end"} /\ wsState[ev.ws] = "open"
     /\ Has(userStreams, KeyOf(ev.ws)))
    => timeouts # {}

\* C4: at most one recreation is pending for a session (a participant) at any
\* instant (stated here for participants with userIDs of their own, in runs
\* where no write has thrown).
C4_OneRecreationInFlight ==
  (DistinctUserIDs /\ ~threwU) => \A u \in Users : Cardinality(PendingOfUser(u)) <= 1

\* C5: a recreation callback that fires after its connection has closed
\* creates no stream and installs nothing, also when other participants are
\* connected by then.
C5_NoRecreationAfterClose ==
  (ev.op = "recreate" /\ wsState[ev.ws] = "closed") => ~ev.acted

\* C6: a second close signal of a connection changes no map, stream or timer,
\* whoever joined or left in between.
C6_CloseIdempotent ==
  [][\A w \in WS : CloseAgain(w) =>
        UNCHANGED <<rooms, userMeta, userStreams, streams, intervals, timeouts>>]_vars

\* the userIDs whose connection to call c is open
JoinedNotLeft(c) ==
  {connU[w].userID : w \in {x \in WS : wsStateU[x] = "open" /\ connU[x].callID = c}}

\* C7: a call's member set holds exactly the participants that joined it and
\* have not left, and the call record exists exactly when that set is not
\* empty.
C7_MembersAreJoinedNotLeft ==
  \A c \in Calls :
    /\ Has(roomsU, c) <=> JoinedNotLeft(c) # {}
    /\ Has(roomsU, c) => roomsU[c] = JoinedNotLeft(c)

\* C8: a participant identifier is a member of at most one call, the one in
\* its connection record.
C8_OneCallPerParticipant ==
  \A u \in Users :
    /\ Cardinality({c \in DOMAIN roomsU : u \in roomsU[c]}) <= 1
    /\ \A c \in DOMAIN roomsU :
         u \in roomsU[c] => (Has(userConnections, u) /\ userConnections[u].callID = c)

\* a final with the run's text, inside the window of the run's acceptance
FinalInWindow == evF.op = "data" /\ evF.isFinal /\ evF.inWindow

\* C9 as stated: of a run of identical interims, each less than 800 ms after
\* the one before, at most one is accepted however long the run lasts, and a
\* final with that text within 1500 ms of the acceptance is dropped.
C9_AtMostOneAcceptedPerRun ==
  /\ run.accepts <= 1
  /\ FinalInWindow => evF.verdict = "dup"

\* C9 amended: two accepted events of such a run are at least 1500 ms apart
\* (so at most one is accepted in any span shorter than the window), and a
\* final with that text within 1500 ms of the acceptance is dropped.
C9_AcceptsOfARunAreAWindowApart ==
  /\ run.apart
  /\ FinalInWindow => evF.verdict = "dup"

\* C9 witness: a run of three or more interims with one acceptance, closed by
\* a final of the same text that is dropped as a duplicate.
C9_Witness ==
  /\ FinalInWindow
  /\ evF.verdict = "dup"
  /\ run.len >= 3
  /\ run.accepts = 1

\* C10: a final with a transcript is accepted if and only if its text differs
\* from the last accepted text or 1500 ms have passed since the last
\* acceptance.
C10_FinalAcceptedIff ==
  (evF.op = "data" /\ evF.isFinal /\ evF.texto # "")
    => (evF.verdict = "accept"
          <=> (evF.texto # evF.prevText \/ evF.elapsed >= DedupWindowMs))

\* C10 witness: a final that repeats the last accepted text after the window
\* has expired, and one that arrives inside the pacing interval, are accepted.
C10_Witness ==
  /\ evF.op = "data" /\ evF.isFinal /\ evF.verdict = "accept"
  /\ evF.texto = evF.prevText
  /\ evF.elapsed >= DedupWindowMs

\* C11: an interim result is accepted only when at least 800 ms have passed
\* since the stream's reference time, one that arrives sooner is dropped and
\* leaves the filter as it was, and the reference time moves only when an
\* event is accepted (to the arrival of that event) or a stream is created.
C11_InterimStep ==
  (evF'.op = "data" /\ ~evF'.isFinal /\ evF'.texto # "") =>
    /\ evF'.verdict = "accept" => ahora - ultimoTimestamp >= MinIntervalMs
    /\ ahora - ultimoTimestamp < MinIntervalMs =>
         /\ evF'.verdict = "throttle"
         /\ UNCHANGED <<ultimoTextoProcesado, ultimoTimestamp>>

C11_ReferenceStep ==
  ultimoTimestamp' # ultimoTimestamp =>
    \/ evF'.op = "create"
    \/ evF'.op = "data" /\ evF'.verdict = "accept" /\ ultimoTimestamp' = ahora

C11_InterimsPaced == [][C11_InterimStep /\ C11_ReferenceStep]_vars

\* C11 witness: an interim is accepted 800 ms or more after an earlier
\* accepted event with another text.
C11_Witness ==
  /\ evF.op = "data" /\ ~evF.isFinal /\ evF.verdict = "accept"
  /\ evF.prevText # "" /\ evF.prevText # evF.texto
  /\ evF.elapsed >= MinIntervalMs

\* C12: an event, interim or final, whose text is the last text accepted
\* before a recreation is accepted when it arrives right after the new
\* stream was created.
C12_RecreationResetsDedup ==
  [][(/\ evF.op = "create" /\ evF.prevText # ""
      /\ evF'.op = "data" /\ evF'.texto = evF.prevText)
       => evF'.verdict = "accept"]_vars

\* C13: the first result with a transcript that a newly created stream
\* reports is accepted, interim or final, however soon after the creation it
\* arrives.
C13_FirstEventAccepted ==
  [][(evF.op \in {"init", "create"} /\ evF'.op = "data" /\ evF'.texto # "")
       => evF'.verdict = "accept"]_vars

\* the payloads of result e in a sequence of payloads
Of(log, e) == SelectSeq(log, LAMBDA p : p.event = e)

\* C14: every payload a connection receives carries a translation into the
\* target language that connection asked for, and names that language in
\* its targetLang field, whoever spoke.
C14_RecipientLanguage ==
  \A w \in WS : \A i \in 1..Len(sentB[w]) :
    /\ sentB[w][i].targetLang = extraerCodigoCorto(TargetLangOf(w))
    /\ sentB[w][i].traduccion = extraerCodigoCorto(TargetLangOf(w))

\* the translations of result e that failed
FailedOf(e) == {u \in UsersD : <<e, u>> \in failed}

\* C15: when the handler of an accepted result has returned, no translation
\* of it failed and every member that was connected when it arrived is
\* still connected, each of those members has received exactly one payload
\* of the result; a payload has isSelf true exactly when it is delivered
\* to the speaker, and nobody ever receives two payloads of one result.
C15_OnePayloadEach ==
  \A e \in 1..MaxEvents :
    /\ \A u \in UsersD :
         /\ Len(Of(sent[u], e)) <= 1
         /\ \A i \in 1..Len(sent[u]) :
              sent[u][i].isSelf <=> (sent[u][i].userID = u)
    /\ (/\ handlers[e].pc = "done"
        /\ FailedOf(e) = {}
        /\ \A u \in handlers[e].members : Reachable(u))
         => \A u \in handlers[e].members : Len(Of(sent[u], e)) = 1

\* C15 witness: a result of u1 with u1 and u2 connected has been delivered
\* once to each, to u1 with isSelf true and to u2 with isSelf false.
C15_Witness ==
  \E e \in 1..MaxEvents :
    /\ handlers[e].pc = "done" /\ handlers[e].userID = "u1"
    /\ handlers[e].members = {"u1", "u2"}
    /\ FailedOf(e) = {}
    /\ \A u \in UsersD : Reachable(u) /\ Len(Of(sent[u], e)) = 1
    /\ Of(sent["u1"], e)[1].isSelf
    /\ ~Of(sent["u2"], e)[1].isSelf

\* C16: when the handler of an accepted result has returned, every member
\* that was connected when it arrived, is still connected and whose
\* translation did not fail has received its payload of the result, whatever
\* happened to the translations of the others.
C16_Delivered ==
  \A e \in 1..MaxEvents :
    handlers[e].pc = "done" =>
      \A u \in handlers[e].members :
        (Reachable(u) /\ u \notin FailedOf(e)) => Len(Of(sent[u], e)) = 1

\* C16, continued: a translation that fails changes neither the registry,
\* nor the connections, nor what has been delivered, nor the handler of
\* another result.
C16_FailureStep ==
  \A e \in 1..MaxEvents :
    TranslateDone(e, FALSE) =>
      /\ UNCHANGED <<participants, readyState, registered, sent>>
      /\ \A d \in 1..MaxEvents : d # e => handlers'[d] = handlers[d]

C16_FailureSkipsOneRecipient == [][C16_Delivered' /\ C16_FailureStep]_vars

\* C16 witness: the translation for the first recipient of a result failed
\* and the second recipient received its payload of the same result.
C16_Witness ==
  \E e \in 1..MaxEvents :
    /\ handlers[e].pc = "done"
    /\ Len(participants) = 2
    /\ participants[1] \in FailedOf(e)
    /\ Of(sent[participants[1]], e) = <<>>
    /\ Reachable(participants[2])
    /\ Len(Of(sent[participants[2]], e)) = 1

\* C17: of two results of one stream the handler of the later one does not
\* call the translation before the handler of the earlier one has returned,
\* and every recipient receives the payloads of one speaker in the order of
\* the results.
C17_FanoutInArrivalOrder ==
  /\ \A d, e \in 1..MaxEvents :
       (d < e /\ handlers[e].pc # "idle" /\ handlers[e].userID = handlers[d].userID)
         => handlers[d].pc = "done"
  /\ \A u \in UsersD : \A i, j \in 1..Len(sent[u]) :
       (i < j /\ sent[u][i].userID = sent[u][j].userID)
         => sent[u][i].event < sent[u][j].event

\* C18: an audio frame of a connection is written only to a stream created
\* for that connection, and a stream made by a recreation carries the
\* parameters of the connection it is made for.
C18_SessionsIndependent ==
  /\ (ev.op = "frame" /\ ev.stream # NoStream) => streams[ev.stream].ws = ev.ws
  /\ (ev.op = "recreate" /\ ev.made # NoStream) =>
       /\ streams[ev.made].userID = conn[ev.ws].userID
       /\ streams[ev.made].callID = conn[ev.ws].callID
       /\ streams[ev.made].sourceLang = conn[ev.ws].sourceLang
       /\ streams[ev.made].targetLang = conn[ev.ws].targetLang

\* C19: once the error handler of a connection has run, the connection is in
\* no room, no stream created for it can still emit and no inactivity
\* interval of such a stream is running.
C19_TransportErrorCleansUp ==
  ev.op = "wserror" =>
    /\ \A c \in DOMAIN rooms : ev.ws \notin rooms[c]
    /\ \A s \in 1..Len(streams) :
         streams[s].ws = ev.ws => (~Emits(s) /\ s \notin intervals)

\* C20: a run of the inactivity check of a registered session re-arms the
\* check 8000 ms on; when more than 20000 ms have passed since the last
\* audio activity and isRestarting is false, it sets the flag, tears the
\* stream down and schedules one recreation 500 ms later, creating nothing
\* itself; when the flag is set or the gap is at most 20000 ms it changes
\* neither the session nor the pending recreations. The recreation it
\* scheduled, firing for a session still registered, installs exactly one
\* new stream and clears the flag, no earlier than 500 ms after the check.
C20_CheckStep ==
  \A d \in timersI.check :
    (CheckI(d) /\ sessionI.registered) =>
      LET idle == clockI - sessionI.lastAudioTime > IdleLimitMs
      IN /\ timersI'.check = {d + CheckPeriodMs}
         /\ (idle /\ ~sessionI.isRestarting) =>
              /\ sessionI'.isRestarting
              /\ ~sessionI'.live
              /\ sessionI'.lastAudioTime = sessionI.lastAudioTime
              /\ timersI'.idle = {clockI + IdleDelayMs}
              /\ timersI'.error = timersI.error
              /\ evI'.made = 0
         /\ (~idle \/ sessionI.isRestarting) =>
              /\ sessionI' = sessionI
              /\ timersI'.idle = timersI.idle
              /\ timersI'.error = timersI.error
              /\ evI'.made = 0

C20_TimerStep ==
  \A d \in timersI.idle :
    (IdleTimerI(d) /\ sessionI.registered) =>
      /\ d <= clockI /\ clockI < d + StepI
      /\ evI'.made = 1
      /\ sessionI'.live
      /\ ~sessionI'.isRestarting
      /\ timersI'.idle = {}

C20_IdleCheck == [][C20_CheckStep /\ C20_TimerStep]_vars

\* C20 witness: the recreation scheduled by an inactivity check has fired
\* for a registered session and installed a stream.
C20_Witness ==
  /\ evI.op = "idleTimer" /\ evI.go /\ evI.made = 1
  /\ sessionI.live /\ ~sessionI.isRestarting
  /\ clockI - sessionI.lastAudioTime > IdleLimitMs

\* C21: after a close handler whose teardown threw, the session record and
\* the metadata entry are gone, the interval it found recorded is cleared,
\* the connection is in no room and no room is left empty.
C21_CleanupDespiteThrow ==
  ev.op = "closeThrew" =>
    /\ ~Has(userStreams, KeyOf(ev.ws))
    /\ ~Has(userMeta, KeyOf(ev.ws))
    /\ ev.stream \notin intervals
    /\ \A c \in DOMAIN rooms : ev.ws \notin rooms[c] /\ rooms[c] # {}

\* C21 witness: the teardown threw in the close of the last connection of
\* its call, and the stream it was ending is left undestroyed.
C21_Witness ==
  /\ ev.op = "closeThrew"
  /\ ev.stream # NoStream
  /\ ~streams[ev.stream].destroyed
  /\ ~Has(rooms, conn[ev.ws].callID)

\* C22: every connection that receives a payload of a result reported in
\* call c is registered in call c.
C22_PayloadStaysInCall ==
  evU.op = "data" => \A w \in evU.to : connU[w].callID = evU.call

\* C23: whenever a translation has succeeded and the handler calls send, the
\* recipient's connection is OPEN.
C23_SendOnlyWhenOpen ==
  [][\A e \in 1..MaxEvents :
       TranslateDone(e, TRUE) => readyState[handlers[e].cur] = "OPEN"]_vars

\* C24: a recreation fired by the inactivity check, like one fired by the
\* error handler, leaves the session's lastAudioTime at the time of the
\* recreation.
C24_RecreationRefreshesActivity ==
  (evI.op \in {"idleTimer", "errorTimer"} /\ evI.go) =>
    sessionI.lastAudioTime = clockI

\* C25: when no connection is open and no recreation is pending, no stream
\* is left un-ended with its handlers attached, no inactivity interval is
\* running, and userStreams, userMeta and rooms are empty.
C25_QuiescentWithoutLeaks ==
  ((\A w \in WS : wsState[w] # "open") /\ timeouts = {}) =>
    /\ \A s \in 1..Len(streams) :
         ~(streams[s].listeners /\ streams[s].writable /\ ~streams[s].destroyed)
    /\ intervals = {}
    /\ userStreams = EmptyMap
    /\ userMeta = EmptyMap
    /\ rooms = EmptyMap

====
